---- MODULE Spec2Model ----
(***************************************************************************)
(* Model of cms_hospitals_ingest.py: the daily ingestion job for the       *)
(* hospital-themed CMS provider datasets.                                  *)
(*                                                                         *)
(* Strings whose characters matter (themes, column names) are sequences    *)
(* of one-character atoms.  Timestamps are ordinals 1..MaxTime: the code   *)
(* compares the "modified" strings with >, which on one fixed ISO-8601     *)
(* format is the order of the ordinals.                                    *)
(***************************************************************************)
EXTENDS Integers, Sequences, FiniteSets, TLC

VARIABLES
    catalog,      \* the "items" the metastore answers with (fetch_datasets)
    state_file,   \* metadata.json on disk: [exists, datasets]
    files,        \* output/<identifier>.csv on disk: identifier -> content
    metadata,     \* main's in-memory metadata["datasets"], shared with the tasks
    tasks,        \* the futures of this run, in submission order
    pc_main,      \* where main() is: "idle", "collecting", "unwinding"
    collected,    \* the futures as_completed has already yielded to main
    outcome,      \* how the last run of main() ended
    saves,        \* calls of save_metadata in the current run
    repeat,       \* the current run follows a run that returned normally
    runs,         \* runs of main() started so far
    raw,          \* a column name read from a CSV header
    cooked,       \* to_snake_case(raw)
    again,        \* to_snake_case(cooked)
    norm_pc,      \* "in", "out", "again"
    hospital_datasets  \* the list main() builds at lines 162-165

vars == <<catalog, state_file, files, metadata, tasks, pc_main, collected,
          outcome, saves, repeat, runs, raw, cooked, again, norm_pc,
          hospital_datasets>>

mainVars == <<catalog, state_file, files, metadata, tasks, pc_main, collected,
              outcome, saves, repeat, runs, hospital_datasets>>

normVars == <<raw, cooked, again, norm_pc>>

----------------------------------------------------------------------------
(* Bounds of the model *)

MaxCatalog == 2

MaxTime == 2

MaxRuns == 2

MaxLen == 4

(* Configuration, line 35 *)
MAX_WORKERS == 5

----------------------------------------------------------------------------
(* Characters and strings *)

UpperCase == <<"A","B","C","D","E","F","G","H","I","J","K","L","M",
               "N","O","P","Q","R","S","T","U","V","W","X","Y","Z">>

LowerCase == <<"a","b","c","d","e","f","g","h","i","j","k","l","m",
               "n","o","p","q","r","s","t","u","v","w","x","y","z">>

Digits == {"0","1","2","3","4","5","6","7","8","9"}

\* U+2019, the typographic apostrophe of the pattern at line 75
Curly == "U+2019"

Straight == "'"

\* str.lower() on one character
LowerChar(c) ==
    IF \E i \in 1..26 : UpperCase[i] = c
    THEN LowerCase[CHOOSE i \in 1..26 : UpperCase[i] = c]
    ELSE c

\* str.lower()
Lower(s) == [i \in 1..Len(s) |-> LowerChar(s[i])]

\* the character class [a-z0-9]
IsAlnum(c) == (\E i \in 1..26 : LowerCase[i] = c) \/ c \in Digits

\* sub in s
Contains(s, sub) ==
    \E k \in 0..(Len(s) - Len(sub)) : SubSeq(s, k + 1, k + Len(sub)) = sub

\* re.sub(r"[’']", "", col)
RECURSIVE DropApostrophes(_)
DropApostrophes(s) ==
    IF s = <<>> THEN <<>>
    ELSE IF Head(s) \in {Curly, Straight} THEN DropApostrophes(Tail(s))
    ELSE <<Head(s)>> \o DropApostrophes(Tail(s))

\* the longest prefix of s outside [a-z0-9] is dropped
RECURSIVE SkipRun(_)
SkipRun(s) ==
    IF s = <<>> \/ IsAlnum(Head(s)) THEN s ELSE SkipRun(Tail(s))

\* re.sub(r"[^a-z0-9]+", "_", col)
RECURSIVE ReplaceRuns(_)
ReplaceRuns(s) ==
    IF s = <<>> THEN <<>>
    ELSE IF IsAlnum(Head(s)) THEN <<Head(s)>> \o ReplaceRuns(Tail(s))
    ELSE <<"_">> \o ReplaceRuns(SkipRun(s))

RECURSIVE LStrip(_)
LStrip(s) == IF s # <<>> /\ Head(s) = "_" THEN LStrip(Tail(s)) ELSE s

RECURSIVE RStrip(_)
RStrip(s) ==
    IF s # <<>> /\ s[Len(s)] = "_" THEN RStrip(SubSeq(s, 1, Len(s) - 1)) ELSE s

\* strip("_") mistaken for lstrip("_")
Strip_LeftOnly(s) == LStrip(s)

\* col.strip("_")
Strip(s) == RStrip(LStrip(s))

to_snake_case(column_name) == Strip(ReplaceRuns(DropApostrophes(Lower(column_name))))

----------------------------------------------------------------------------
(* Dataset descriptors *)

Ids == {"D1", "D2"}

Times == 1..MaxTime

\* dataset.get("downloadURL") of a distribution without the key
NoURL == "none"

\* the "distribution" field: absent, [], [{}], [{"downloadURL": ...}]
DistAbsent == [present |-> FALSE, items |-> <<>>]

DistEmpty == [present |-> TRUE, items |-> <<>>]

DistNoURL == [present |-> TRUE, items |-> <<NoURL>>]

DistURL == [present |-> TRUE, items |-> <<"url">>]

Distributions == {DistAbsent, DistEmpty, DistNoURL, DistURL}

ThemeHospitals == <<"H","o","s","p","i","t","a","l","s">>

ThemeNursing == <<"N","u","r","s","i","n","g"," ","h","o","m","e","s">>

ThemeUpper == <<"H","O","S","P","I","T","A","L">>

ThemeInner == <<"A","l","l","-","h","o","s","p","i","t","a","l"," ","x">>

ThemeNear == <<"h","o","s","p","i","t","a"," ","l">>

\* dataset.get("theme", "") of a descriptor without the key
ThemeNone == <<>>

RunThemes == {ThemeHospitals, ThemeNursing}

OtherThemes == {ThemeInner, ThemeNear, ThemeNone}

Descriptors(themes, ids, times, dists) ==
    [identifier : ids, theme : themes, modified : times, distribution : dists]

SeqsUpTo(S, n) == UNION {[1..k -> S] : k \in 0..n}

\* the mappings metadata["datasets"] can hold
Mappings == UNION {[D -> Times] : D \in SUBSET Ids}

Put(m, k, v) == [x \in (DOMAIN m) \cup {k} |-> IF x = k THEN v ELSE m[x]]

----------------------------------------------------------------------------
(* Lines 41-51 *)
load_metadata(file) == IF file.exists THEN file.datasets ELSE <<>>

(* Lines 92-98 *)
is_hospital_dataset(dataset) == Contains(Lower(dataset.theme), <<"h","o","s","p","i","t","a","l">>)

\* line 114 with >= for >
needs_update_OrEqual(dataset, md) ==
    IF dataset.identifier \notin DOMAIN md THEN TRUE
    ELSE dataset.modified >= md[dataset.identifier]

\* line 114 without the comparison
needs_update_Always(dataset, md) == TRUE

(* Lines 101-114 *)
needs_update(dataset, md) ==
    IF dataset.identifier \notin DOMAIN md THEN TRUE
    ELSE dataset.modified > md[dataset.identifier]

(* Lines 162-165: the list comprehension keeps the catalog's order *)
RECURSIVE Filter(_, _)
Filter(datasets, md) ==
    IF datasets = <<>> THEN <<>>
    ELSE IF is_hospital_dataset(Head(datasets)) /\ needs_update(Head(datasets), md)
         THEN <<Head(datasets)>> \o Filter(Tail(datasets), md)
         ELSE Filter(Tail(datasets), md)

(* Line 134: dataset.get("distribution", [{}]) *)
DistributionOf(dataset) ==
    IF dataset.distribution.present THEN dataset.distribution.items ELSE <<NoURL>>

Final == {"done", "skipped", "failed"}

Running == {"started", "downloaded", "written"}

Settled == \A i \in 1..Len(tasks) : tasks[i].pc \in Final

Busy == Cardinality({i \in 1..Len(tasks) : tasks[i].pc \in Running})

SetPc(i, p) == [tasks EXCEPT ![i].pc = p]

----------------------------------------------------------------------------
(* process_dataset, lines 120-148, run by a worker thread of the pool *)

(* A worker takes the oldest queued work item (the pool's queue is FIFO and  *)
(* has MAX_WORKERS threads) and runs lines 129-136.                          *)
Start(i) ==
    /\ i \in 1..Len(tasks)
    /\ tasks[i].pc = "queued"
    /\ \A j \in 1..(i - 1) : tasks[j].pc # "queued"
    /\ Busy < MAX_WORKERS
    /\ LET dist == DistributionOf(tasks[i].d)
       IN  tasks' = SetPc(i, IF dist = <<>> THEN "failed"       \* [][0]: IndexError
                             ELSE IF dist[1] = NoURL THEN "skipped"  \* return None
                             ELSE "started")
    /\ UNCHANGED <<catalog, state_file, files, metadata, pc_main, collected,
                   outcome, saves, repeat, runs, hospital_datasets>>
    /\ UNCHANGED normVars

(* Line 147 moved before the file is written *)
Download_Records(i) ==
    /\ i \in 1..Len(tasks)
    /\ tasks[i].pc = "started"
    /\ metadata' = Put(metadata, tasks[i].d.identifier, tasks[i].d.modified)
    /\ tasks' = SetPc(i, "downloaded")
    /\ UNCHANGED <<catalog, state_file, files, pc_main, collected,
                   outcome, saves, repeat, runs, hospital_datasets>>
    /\ UNCHANGED normVars

(* Lines 140-141: pd.read_csv succeeds and the columns are renamed *)
Download(i) ==
    /\ i \in 1..Len(tasks)
    /\ tasks[i].pc = "started"
    /\ tasks' = SetPc(i, "downloaded")
    /\ UNCHANGED <<catalog, state_file, files, metadata, pc_main, collected,
                   outcome, saves, repeat, runs, hospital_datasets>>
    /\ UNCHANGED normVars

(* Line 140: pd.read_csv raises (network, HTTP or parse error) *)
DownloadFail(i) ==
    /\ i \in 1..Len(tasks)
    /\ tasks[i].pc = "started"
    /\ tasks' = SetPc(i, "failed")
    /\ UNCHANGED <<catalog, state_file, files, metadata, pc_main, collected,
                   outcome, saves, repeat, runs, hospital_datasets>>
    /\ UNCHANGED normVars

(* Lines 143-145: the cleaned table is written to output/<identifier>.csv *)
WriteFile(i) ==
    /\ i \in 1..Len(tasks)
    /\ tasks[i].pc = "downloaded"
    /\ files' = Put(files, tasks[i].d.identifier, tasks[i].d.modified)
    /\ tasks' = SetPc(i, "written")
    /\ UNCHANGED <<catalog, state_file, metadata, pc_main, collected,
                   outcome, saves, repeat, runs, hospital_datasets>>
    /\ UNCHANGED normVars

(* Lines 143-145: os.makedirs or df.to_csv raises; the file is untouched or  *)
(* left incomplete (content 0)                                               *)
WriteFail(i) ==
    /\ i \in 1..Len(tasks)
    /\ tasks[i].pc = "downloaded"
    /\ files' \in {files, Put(files, tasks[i].d.identifier, 0)}
    /\ tasks' = SetPc(i, "failed")
    /\ UNCHANGED <<catalog, state_file, metadata, pc_main, collected,
                   outcome, saves, repeat, runs, hospital_datasets>>
    /\ UNCHANGED normVars

(* Line 147 left out *)
Record_Forgets(i) ==
    /\ i \in 1..Len(tasks)
    /\ tasks[i].pc = "written"
    /\ tasks' = SetPc(i, "done")
    /\ UNCHANGED <<catalog, state_file, files, metadata, pc_main, collected,
                   outcome, saves, repeat, runs, hospital_datasets>>
    /\ UNCHANGED normVars

(* Lines 147-148 *)
Record(i) ==
    /\ i \in 1..Len(tasks)
    /\ tasks[i].pc = "written"
    /\ metadata' = Put(metadata, tasks[i].d.identifier, tasks[i].d.modified)
    /\ tasks' = SetPc(i, "done")
    /\ UNCHANGED <<catalog, state_file, files, pc_main, collected,
                   outcome, saves, repeat, runs, hospital_datasets>>
    /\ UNCHANGED normVars

----------------------------------------------------------------------------
(* main, lines 154-184 *)

NormalReturn == {"complete", "nothing_to_do"}

(* Lines 158-159 with the request failing: raise_for_status raises *)
FetchFail ==
    /\ pc_main = "idle"
    /\ runs < MaxRuns
    /\ metadata' = load_metadata(state_file)
    /\ tasks' = <<>>
    /\ hospital_datasets' = <<>>
    /\ collected' = {}
    /\ saves' = 0
    /\ repeat' = FALSE
    /\ outcome' = "fetch_failed"
    /\ runs' = runs + 1
    /\ UNCHANGED <<catalog, state_file, files, pc_main>>
    /\ UNCHANGED normVars

(* Line 183 also run on the early return *)
MainEmpty_Saves ==
    /\ pc_main = "idle"
    /\ runs < MaxRuns
    /\ Filter(catalog, load_metadata(state_file)) = <<>>
    /\ metadata' = load_metadata(state_file)
    /\ state_file' = [exists |-> TRUE, datasets |-> load_metadata(state_file)]
    /\ hospital_datasets' = <<>>
    /\ tasks' = <<>>
    /\ collected' = {}
    /\ saves' = 1
    /\ repeat' = (runs > 0 /\ outcome \in NormalReturn)
    /\ outcome' = "nothing_to_do"
    /\ runs' = runs + 1
    /\ UNCHANGED <<catalog, files, pc_main>>
    /\ UNCHANGED normVars

(* Lines 158-169: nothing selected, main returns *)
MainEmpty ==
    /\ pc_main = "idle"
    /\ runs < MaxRuns
    /\ Filter(catalog, load_metadata(state_file)) = <<>>
    /\ metadata' = load_metadata(state_file)
    /\ hospital_datasets' = <<>>
    /\ tasks' = <<>>
    /\ collected' = {}
    /\ saves' = 0
    /\ repeat' = (runs > 0 /\ outcome \in NormalReturn)
    /\ outcome' = "nothing_to_do"
    /\ runs' = runs + 1
    /\ UNCHANGED <<catalog, state_file, files, pc_main>>
    /\ UNCHANGED normVars

(* Lines 158-176: every selected descriptor is submitted to the pool *)
MainSubmit ==
    /\ pc_main = "idle"
    /\ runs < MaxRuns
    /\ LET md == load_metadata(state_file)
           sel == Filter(catalog, md)
       IN  /\ sel # <<>>
           /\ metadata' = md
           /\ hospital_datasets' = sel
           /\ tasks' = [i \in 1..Len(sel) |-> [d |-> sel[i], pc |-> "queued"]]
    /\ collected' = {}
    /\ saves' = 0
    /\ repeat' = (runs > 0 /\ outcome \in NormalReturn)
    /\ outcome' = "running"
    /\ runs' = runs + 1
    /\ pc_main' = "collecting"
    /\ UNCHANGED <<catalog, state_file, files>>
    /\ UNCHANGED normVars

(* Lines 178-181: as_completed yields a finished future; future.result()     *)
(* re-raises the task's exception, which leaves the loop                     *)
Collect(i) ==
    /\ pc_main = "collecting"
    /\ i \in 1..Len(tasks)
    /\ i \notin collected
    /\ tasks[i].pc \in Final
    /\ IF tasks[i].pc = "failed"
       THEN pc_main' = "unwinding" /\ UNCHANGED collected
       ELSE collected' = collected \cup {i} /\ UNCHANGED pc_main
    /\ UNCHANGED <<catalog, state_file, files, metadata, tasks,
                   outcome, saves, repeat, runs, hospital_datasets>>
    /\ UNCHANGED normVars

(* save_metadata moved into the loop over as_completed *)
Save_BeforeBarrier ==
    /\ pc_main = "collecting"
    /\ collected # {}
    /\ state_file' = [exists |-> TRUE, datasets |-> metadata]
    /\ saves' = saves + 1
    /\ outcome' = "complete"
    /\ pc_main' = "idle"
    /\ UNCHANGED <<catalog, files, metadata, tasks, collected, repeat, runs,
                   hospital_datasets>>
    /\ UNCHANGED normVars

(* Lines 183-184: the with block is left normally, save_metadata runs *)
Save ==
    /\ pc_main = "collecting"
    /\ collected = 1..Len(tasks)
    /\ state_file' = [exists |-> TRUE, datasets |-> metadata]
    /\ saves' = saves + 1
    /\ outcome' = "complete"
    /\ pc_main' = "idle"
    /\ UNCHANGED <<catalog, files, metadata, tasks, collected, repeat, runs,
                   hospital_datasets>>
    /\ UNCHANGED normVars

(* The pool shut down with wait=False *)
Unwind_NoWait ==
    /\ pc_main = "unwinding"
    /\ outcome' = "raised"
    /\ pc_main' = "idle"
    /\ UNCHANGED <<catalog, state_file, files, metadata, tasks, collected,
                   saves, repeat, runs, hospital_datasets>>
    /\ UNCHANGED normVars

(* Line 172 on an exception: ThreadPoolExecutor.__exit__ is shutdown(wait=   *)
(* True), which lets queued items run and joins the workers; then the        *)
(* exception leaves main and line 183 is never reached                       *)
Unwind ==
    /\ pc_main = "unwinding"
    /\ Settled
    /\ outcome' = "raised"
    /\ pc_main' = "idle"
    /\ UNCHANGED <<catalog, state_file, files, metadata, tasks, collected,
                   saves, repeat, runs, hospital_datasets>>
    /\ UNCHANGED normVars

----------------------------------------------------------------------------
(* Column names through to_snake_case, line 141 *)

Alphabet == {"P", "a", "7", " ", Straight, Curly, "_", "-"}

Normalize ==
    /\ norm_pc = "in"
    /\ cooked' = to_snake_case(raw)
    /\ norm_pc' = "out"
    /\ UNCHANGED <<raw, again>>
    /\ UNCHANGED mainVars

Renormalize ==
    /\ norm_pc = "out"
    /\ again' = to_snake_case(cooked)
    /\ norm_pc' = "again"
    /\ UNCHANGED <<raw, cooked>>
    /\ UNCHANGED mainVars

----------------------------------------------------------------------------
(* Specifications *)

InitMain(pool) ==
    /\ catalog \in SeqsUpTo(pool, MaxCatalog)
    /\ state_file \in {[exists |-> FALSE, datasets |-> <<>>]}
                      \cup {[exists |-> TRUE, datasets |-> m] : m \in Mappings}
    /\ files = <<>>
    /\ metadata = <<>>
    /\ tasks = <<>>
    /\ hospital_datasets = <<>>
    /\ pc_main = "idle"
    /\ collected = {}
    /\ outcome = "none"
    /\ saves = 0
    /\ repeat = FALSE
    /\ runs = 0

InitNoNorm ==
    /\ raw = <<>>
    /\ cooked = <<>>
    /\ again = <<>>
    /\ norm_pc = "idle"

(* Runs of main() against one catalog, from any persisted state earlier runs *)
(* (against any catalogs) can have left                                      *)
Init == InitMain(Descriptors(RunThemes, Ids, Times, Distributions)) /\ InitNoNorm

Next ==
    \/ FetchFail
    \/ MainEmpty
    \/ MainSubmit
    \/ \E i \in 1..MaxCatalog : Start(i)
    \/ \E i \in 1..MaxCatalog : Download(i)
    \/ \E i \in 1..MaxCatalog : DownloadFail(i)
    \/ \E i \in 1..MaxCatalog : WriteFile(i)
    \/ \E i \in 1..MaxCatalog : WriteFail(i)
    \/ \E i \in 1..MaxCatalog : Record(i)
    \/ \E i \in 1..MaxCatalog : Collect(i)
    \/ Save
    \/ Unwind

Spec == Init /\ [][Next]_vars

(* The pool's threads and the main thread keep running: every enabled step   *)
(* of a task or of main's loop is eventually taken.  Whether a download or a *)
(* write fails is the environment's choice.                                  *)
Progress ==
    \/ \E i \in 1..MaxCatalog : Start(i)
    \/ \E i \in 1..MaxCatalog : (Download(i) \/ DownloadFail(i))
    \/ \E i \in 1..MaxCatalog : (WriteFile(i) \/ WriteFail(i))
    \/ \E i \in 1..MaxCatalog : Record(i)
    \/ \E i \in 1..MaxCatalog : Collect(i)
    \/ Save
    \/ Unwind

FairSpec == Init /\ [][Next]_vars /\ WF_vars(Progress)

(* The filter of main alone, over themes in every spelling.  The spelling    *)
(* of the theme does not enter the update predicate, so the rarer spellings  *)
(* come with one identifier and one timestamp.                               *)
InitSelect ==
    /\ InitMain(Descriptors(RunThemes \cup {ThemeUpper}, Ids, Times, {DistURL})
                \cup Descriptors(OtherThemes, {"D1"}, {MaxTime}, {DistURL}))
    /\ InitNoNorm

NextSelect == MainEmpty \/ MainSubmit

SpecSelect == InitSelect /\ [][NextSelect]_vars

(* to_snake_case alone, over every column name of up to MaxLen characters *)
InitNorm ==
    /\ raw \in SeqsUpTo(Alphabet, MaxLen)
    /\ cooked = <<>>
    /\ again = <<>>
    /\ norm_pc = "in"
    /\ catalog = <<>>
    /\ state_file = [exists |-> FALSE, datasets |-> <<>>]
    /\ files = <<>>
    /\ metadata = <<>>
    /\ tasks = <<>>
    /\ hospital_datasets = <<>>
    /\ pc_main = "idle"
    /\ collected = {}
    /\ outcome = "none"
    /\ saves = 0
    /\ repeat = FALSE
    /\ runs = 0

NextNorm == Normalize \/ Renormalize

SpecNorm == InitNorm /\ [][NextNorm]_vars

----------------------------------------------------------------------------
(* Helpers of the properties *)

TaskIds == 1..Len(tasks)

RunOver == pc_main = "idle" /\ runs > 0

DoneTimes(id) == {tasks[i].d.modified : i \in {j \in TaskIds : tasks[j].pc = "done" /\ tasks[j].d.identifier = id}}

Stored(m, id) == IF id \in DOMAIN m THEN m[id] ELSE 0

NoLocator(d) == d.distribution \in {DistAbsent, DistEmpty, DistNoURL}

----------------------------------------------------------------------------
(* C1: when a run with a non-empty selection ends and one of its tasks has  *)
(* failed at download or write while others succeeded, every successful dataset has its output   *)
(* file and its identifier with its modified timestamp in the persisted     *)
(* state file.                                                              *)
C1_PartialFailureTolerated ==
    (RunOver /\ (\E i \in TaskIds : tasks[i].pc = "failed" /\ tasks[i].d.distribution = DistURL))
    => \A i \in TaskIds :
          tasks[i].pc = "done"
          => /\ tasks[i].d.identifier \in DOMAIN files
             /\ state_file.exists
             /\ tasks[i].d.identifier \in DOMAIN state_file.datasets
             /\ state_file.datasets[tasks[i].d.identifier] \in DoneTimes(tasks[i].d.identifier)

----------------------------------------------------------------------------
(* C2 as stated: while a task of the pool has not settled, the in-memory    *)
(* mapping is as main loaded it; no worker has written to it.               *)
C2_WriteAfterBarrier ==
    (pc_main # "idle" /\ ~Settled) => metadata = load_metadata(state_file)

(* C2 amended: the in-memory mapping is written by the worker tasks, each   *)
(* one setting only its own identifier's entry as the last step of a        *)
(* successful process_dataset; the state file is written only by main, with *)
(* the in-memory mapping, when every task has settled.                      *)
C2_WorkersWriteOwnEntry ==
    [][/\ (pc_main # "idle" /\ metadata' # metadata)
          => \E i \in TaskIds :
                /\ tasks[i].pc = "written"
                /\ tasks'[i].pc = "done"
                /\ metadata' = Put(metadata, tasks[i].d.identifier, tasks[i].d.modified)
       /\ (state_file' # state_file)
          => /\ Settled
             /\ pc_main = "collecting"
             /\ pc_main' = "idle"
             /\ tasks' = tasks
             /\ state_file' = [exists |-> TRUE, datasets |-> metadata]]_vars

C2_Witness ==
    /\ pc_main = "collecting"
    /\ ~Settled
    /\ metadata # load_metadata(state_file)

----------------------------------------------------------------------------
(* C3: within a run the mapping's entry for an identifier changes only in   *)
(* the step of a task for that identifier whose output file has been        *)
(* written, and becomes that task's modified timestamp; a step in which a   *)
(* task fails or is skipped leaves the mapping unchanged.                   *)
C3_StateFollowsFile ==
    [][pc_main # "idle" =>
        /\ \A id \in Ids :
              Stored(metadata', id) # Stored(metadata, id)
              => \E i \in TaskIds :
                    /\ tasks[i].d.identifier = id
                    /\ tasks[i].pc = "written"
                    /\ tasks'[i].pc = "done"
                    /\ id \in DOMAIN files
                    /\ Stored(metadata', id) = tasks[i].d.modified
        /\ \A i \in TaskIds :
              (tasks'[i].pc \in {"failed", "skipped"} /\ tasks[i].pc # tasks'[i].pc)
              => metadata' = metadata]_vars

C3_Witness ==
    /\ \E i \in TaskIds : tasks[i].pc = "done" /\ metadata # load_metadata(state_file)
    /\ \E i \in TaskIds : tasks[i].pc = "failed" /\ tasks[i].d.distribution = DistURL

----------------------------------------------------------------------------
(* C4 as stated: a run that follows a normally returned run against the     *)
(* same catalog selects nothing.                                            *)
C4_SecondRunSelectsNothing ==
    repeat => hospital_datasets = <<>>

(* C4 amended: a run that follows a normally returned run against the same  *)
(* catalog selects only descriptors without a download locator (skipped,    *)
(* never recorded) or descriptors whose identifier the catalog lists again  *)
(* with another modified value; it selects no descriptor that has a         *)
(* downloadURL and whose identifier is listed with one modified value.      *)
C4_SecondRunSelectsOnlyUnrecordable ==
    repeat =>
        \A k \in 1..Len(hospital_datasets) :
            \/ NoLocator(hospital_datasets[k])
            \/ \E j \in 1..Len(catalog) :
                  /\ catalog[j].identifier = hospital_datasets[k].identifier
                  /\ catalog[j].modified # hospital_datasets[k].modified

C4_Witness ==
    /\ repeat
    /\ runs = 2
    /\ state_file.exists
    /\ \E j \in 1..Len(catalog) :
          /\ is_hospital_dataset(catalog[j])
          /\ catalog[j].distribution = DistURL
          /\ Stored(state_file.datasets, catalog[j].identifier) = catalog[j].modified
    /\ \E k \in 1..Len(hospital_datasets) : NoLocator(hospital_datasets[k])

----------------------------------------------------------------------------
(* C5: a selected descriptor without a download locator (distribution       *)
(* absent, empty, or first distribution without downloadURL) ends Skipped,  *)
(* never failed.                                                            *)
C5_NoLocatorIsSkipped ==
    \A i \in TaskIds :
        (NoLocator(tasks[i].d) /\ tasks[i].pc \in Final) => tasks[i].pc = "skipped"

----------------------------------------------------------------------------
(* C6: the list main builds holds exactly the catalog's descriptors whose   *)
(* theme contains "hospital" in any letter case and whose identifier is     *)
(* absent from the state or stored with a strictly smaller timestamp, in    *)
(* the catalog's order.                                                     *)
HospitalWord == <<"h","o","s","p","i","t","a","l">>

Qualifies(d, md) ==
    /\ \E k \in 0..Len(d.theme) :
          /\ k + 8 <= Len(d.theme)
          /\ \A j \in 1..8 : LowerChar(d.theme[k + j]) = HospitalWord[j]
    /\ Stored(md, d.identifier) < d.modified

C6_SelectionPredicate ==
    runs > 0 =>
        LET md == load_metadata(state_file)
            want == {j \in 1..Len(catalog) : Qualifies(catalog[j], md)}
        IN  /\ Len(hospital_datasets) = Cardinality(want)
            /\ \E f \in [1..Len(hospital_datasets) -> 1..Len(catalog)] :
                  /\ \A a \in DOMAIN f : f[a] \in want /\ hospital_datasets[a] = catalog[f[a]]
                  /\ \A a, b \in DOMAIN f : a < b => f[a] < f[b]

C6_Witness ==
    /\ runs > 0
    /\ Len(catalog) = 2
    /\ Len(hospital_datasets) = 1
    /\ hospital_datasets[1] = catalog[2]
    /\ catalog[1].theme = ThemeHospitals
    /\ catalog[1].identifier \in DOMAIN state_file.datasets
    /\ catalog[1].modified = state_file.datasets[catalog[1].identifier]
    /\ catalog[2].theme = ThemeUpper
    /\ catalog[2].identifier \in DOMAIN state_file.datasets

----------------------------------------------------------------------------
(* C7: once tasks are submitted every one of them reaches a final outcome,  *)
(* also after a sibling has failed; main does not leave the run while a     *)
(* task is unsettled; the state file is written at most once per run and    *)
(* only when all tasks have settled.                                        *)
C7_NoFailFast ==
    /\ [](pc_main = "idle" => Settled)
    /\ [](saves <= 1)
    /\ [][state_file' # state_file => (Settled /\ saves = 0)]_vars
    /\ \A i \in 1..MaxCatalog :
          (i \in TaskIds /\ tasks[i].pc = "queued") ~> (i \in TaskIds /\ tasks[i].pc \in Final)
    /\ (pc_main = "unwinding") ~> (pc_main = "idle" /\ Settled)

C7_Witness ==
    /\ RunOver
    /\ outcome = "raised"
    /\ Len(tasks) = 2
    /\ tasks[1].pc = "failed"
    /\ tasks[2].pc = "done"

----------------------------------------------------------------------------
(* C8: to_snake_case(x) holds only characters of [a-z0-9_], no two          *)
(* underscores in a row, no underscore at either end, and to_snake_case is  *)
(* idempotent on it.                                                        *)
Canonical(s) ==
    /\ \A i \in 1..Len(s) : IsAlnum(s[i]) \/ s[i] = "_"
    /\ \A i \in 1..(Len(s) - 1) : ~(s[i] = "_" /\ s[i + 1] = "_")
    /\ s # <<>> => (s[1] # "_" /\ s[Len(s)] # "_")

C8_NormalForm ==
    /\ norm_pc \in {"out", "again"} => Canonical(cooked)
    /\ norm_pc = "again" => again = cooked

C8_Witness ==
    /\ norm_pc = "again"
    /\ raw = <<" ", "P", Curly, "-">>
    /\ cooked = <<"p">>

----------------------------------------------------------------------------
(* C9: a run in which no descriptor of the catalog passes both predicates   *)
(* returns normally, submits no task, writes no output file and leaves the  *)
(* state file as it was, neither rewritten nor created.                     *)
C9_EmptySelectionNoOp ==
    [][(pc_main = "idle" /\ runs' = runs + 1 /\ outcome' # "fetch_failed"
        /\ \A j \in 1..Len(catalog) :
              ~(is_hospital_dataset(catalog[j])
                /\ Stored(load_metadata(state_file), catalog[j].identifier) < catalog[j].modified))
       => /\ outcome' = "nothing_to_do"
          /\ pc_main' = "idle"
          /\ tasks' = <<>>
          /\ files' = files
          /\ state_file' = state_file]_vars

C9_Witness ==
    /\ outcome = "nothing_to_do"
    /\ runs = 1
    /\ \E j \in 1..Len(catalog) :
          /\ is_hospital_dataset(catalog[j])
          /\ Stored(load_metadata(state_file), catalog[j].identifier) = catalog[j].modified

----------------------------------------------------------------------------
====
